---- MODULE Spec2Model ----
(***************************************************************************)
(* Model of src/app.py: the grading request pipeline (quota gate, prompt   *)
(* assembly, model invocation with fallback, output cleaning) and the      *)
(* activation-code redemption handler, run by concurrent request workers   *)
(* against one SQLite database.                                            *)
(*                                                                         *)
(* Text is a sequence of one-character strings; "" of Python is << >>.     *)
(***************************************************************************)
EXTENDS Integers, Sequences, FiniteSets, TLC

VARIABLES
    users,      \* table users: id -> [plan, uses_today, last_use_date]
    codes,      \* table activation_codes: code -> [plan, redeemed_by]
    today,      \* the process-local calendar day, date.today()
    req,        \* per worker: the request it is handling and its local variables
    nreq,       \* number of requests accepted so far
    resp,       \* the response most recently sent, with what the request did
    freeAuth,   \* history: user -> day -> number of calls authorized under plan "free"
    redeemOk,   \* history: code -> set of users whose redeem of it succeeded
    p_in,       \* build_full_prompt under test: [template, rubric, student]
    p_out,      \* its outcome: [done, err, text]
    s_raw,      \* the cleaning step under test: raw model text
    s_out,      \* its outcome: [done, text]
    c_models,   \* call_model under test: <<PRIMARY_MODEL, FALLBACK_MODEL>> of the environment
    c_call      \* its loop: [idx, attempts, last_error, status, text]

vars == <<users, codes, today, req, nreq, resp, freeAuth, redeemOk,
          p_in, p_out, s_raw, s_out, c_models, c_call>>

-----------------------------------------------------------------------------
(* Bounds of the model *)

MaxRequests == 3    \* requests accepted in one behaviour
MaxDay == 2         \* the calendar advances up to this day
MaxLen == 6         \* length of a raw model text given to the cleaning step
MaxTextLen == 2     \* length of a rubric / submission given to build_full_prompt

(* Program constants *)

FREE_DAILY_LIMIT == 5

-----------------------------------------------------------------------------
(* Text helpers: Python str methods on sequences of characters *)

RECURSIVE SeqsUpTo(_, _)
SeqsUpTo(S, n) ==
    IF n = 0 THEN {<< >>}
    ELSE LET shorter == SeqsUpTo(S, n - 1)
         IN  shorter \cup {Append(s, c) : s \in {t \in shorter : Len(t) = n - 1}, c \in S}

HasPrefix(s, p) == Len(s) >= Len(p) /\ SubSeq(s, 1, Len(p)) = p

Contains(s, p) == \E i \in 1..(Len(s) - Len(p) + 1) : SubSeq(s, i, i + Len(p) - 1) = p

\* str.replace(old, new) for a non-empty old: leftmost, non-overlapping, one pass
RECURSIVE Replace(_, _, _)
Replace(s, old, new) ==
    IF s = << >> THEN << >>
    ELSE IF HasPrefix(s, old)
         THEN new \o Replace(SubSeq(s, Len(old) + 1, Len(s)), old, new)
         ELSE <<Head(s)>> \o Replace(Tail(s), old, new)

NL == "\n"
IsSpace(c) == c \in {" ", NL}

RECURSIVE LStrip(_)
LStrip(s) == IF s # << >> /\ IsSpace(Head(s)) THEN LStrip(Tail(s)) ELSE s

RECURSIVE RStrip(_)
RStrip(s) ==
    IF s # << >> /\ IsSpace(s[Len(s)]) THEN RStrip(SubSeq(s, 1, Len(s) - 1)) ELSE s

\* str.strip()
Strip(s) == RStrip(LStrip(s))

\* "\n\n".join(parts)
RECURSIVE Join(_)
Join(parts) ==
    IF parts = << >> THEN << >>
    ELSE IF Len(parts) = 1 THEN parts[1]
    ELSE parts[1] \o <<NL, NL>> \o Join(Tail(parts))

-----------------------------------------------------------------------------
(* Template engine: build_full_prompt and the str.format it calls *)

RUBRIC_FIELD == <<"r", "u", "b", "r", "i", "c">>
STUDENT_FIELD == <<"s", "t", "u", "d", "e", "n", "t">>
Placeholder(name) == <<"{">> \o name \o <<"}">>

\* The default template, its prose shortened: text, {rubric}, text, {student}, text
DEFAULT_PROMPT_TEMPLATE ==
    <<"R", NL>> \o Placeholder(RUBRIC_FIELD) \o <<NL, "S", NL>>
        \o Placeholder(STUDENT_FIELD) \o <<NL, "G">>

\* _escape: every brace of the text doubled
Escape(text) == Replace(Replace(text, <<"{">>, <<"{", "{">>), <<"}">>, <<"}", "}">>)

\* Index of the "}" that closes a replacement field whose content starts at i
\* (braces nest); 0 when the template ends first
RECURSIVE FieldEnd(_, _, _)
FieldEnd(t, i, depth) ==
    IF i > Len(t) THEN 0
    ELSE IF t[i] = "{" THEN FieldEnd(t, i + 1, depth + 1)
    ELSE IF t[i] = "}" THEN (IF depth = 1 THEN i ELSE FieldEnd(t, i + 1, depth - 1))
    ELSE FieldEnd(t, i + 1, depth)

\* Keyword lookup of a replacement field: only rubric= and student= are passed
FieldValue(name, rubric, student) ==
    IF name = RUBRIC_FIELD THEN [err |-> "", text |-> rubric]
    ELSE IF name = STUDENT_FIELD THEN [err |-> "", text |-> student]
    ELSE IF name = << >> THEN [err |-> "IndexError", text |-> << >>]
    ELSE IF Contains(name, <<"{">>) THEN [err |-> "ValueError", text |-> << >>]
    ELSE [err |-> "KeyError", text |-> << >>]

\* What str.format does with a piece followed by the formatted rest
Then(piece, rest) ==
    IF piece.err # "" THEN piece
    ELSE IF rest.err # "" THEN rest
    ELSE [err |-> "", text |-> piece.text \o rest.text]

\* template.format(rubric=rubric, student=student): "{{" and "}}" are literal
\* braces, "{name}" is replaced by the argument AS IT IS (the argument is not
\* parsed again), a single brace is a ValueError
RECURSIVE StrFormat(_, _, _)
StrFormat(t, rubric, student) ==
    IF t = << >> THEN [err |-> "", text |-> << >>]
    ELSE IF Head(t) = "{" THEN
        IF Len(t) >= 2 /\ t[2] = "{"
        THEN Then([err |-> "", text |-> <<"{">>],
                  StrFormat(SubSeq(t, 3, Len(t)), rubric, student))
        ELSE LET e == FieldEnd(t, 2, 1)
             IN  IF e = 0 THEN [err |-> "ValueError", text |-> << >>]
                 ELSE Then(FieldValue(SubSeq(t, 2, e - 1), rubric, student),
                           StrFormat(SubSeq(t, e + 1, Len(t)), rubric, student))
    ELSE IF Head(t) = "}" THEN
        IF Len(t) >= 2 /\ t[2] = "}"
        THEN Then([err |-> "", text |-> <<"}">>],
                  StrFormat(SubSeq(t, 3, Len(t)), rubric, student))
        ELSE [err |-> "ValueError", text |-> << >>]
    ELSE Then([err |-> "", text |-> <<Head(t)>>], StrFormat(Tail(t), rubric, student))

\* build_full_prompt: [err, text]; err # "" is the exception str.format raised
BuildFullPrompt(prompt_template, rubric_text, student_text) ==
    StrFormat(prompt_template, Escape(rubric_text), Escape(student_text))

-----------------------------------------------------------------------------
(* Sanitizer: the cleaning at the end of grade *)

IsMarker(c) == c \in {"*", "-", "+"}

RECURSIVE SkipMarkers(_, _)
SkipMarkers(s, i) == IF i <= Len(s) /\ IsMarker(s[i]) THEN SkipMarkers(s, i + 1) ELSE i

RECURSIVE SkipSpaces(_, _)
SkipSpaces(s, i) == IF i <= Len(s) /\ IsSpace(s[i]) THEN SkipSpaces(s, i + 1) ELSE i

\* ^ under re.MULTILINE: the start of the text or just after a newline
AtLineStart(s, i) == i = 1 \/ s[i - 1] = NL

\* re.sub(r"^[*\-\+]+\s*", "", s, flags=re.MULTILINE) from position i on: a match
\* is dropped and the scan goes on where it ended (\s* also eats newlines)
RECURSIVE SubBulletsFrom(_, _)
SubBulletsFrom(s, i) ==
    IF i > Len(s) THEN << >>
    ELSE IF AtLineStart(s, i) /\ IsMarker(s[i])
         THEN SubBulletsFrom(s, SkipSpaces(s, SkipMarkers(s, i)))
         ELSE <<s[i]>> \o SubBulletsFrom(s, i + 1)

SubBullets(s) == SubBulletsFrom(s, 1)

BOLD == <<"*", "*">>
RULE == <<"-", "-", "-">>

\* The cleaning with the final strip() left out
CleanResultNoStrip(raw_result) ==
    SubBullets(Replace(Replace(raw_result, BOLD, << >>), RULE, << >>))

\* clean_result of grade, from raw_result
CleanResult(raw_result) ==
    Strip(SubBullets(Replace(Replace(raw_result, BOLD, << >>), RULE, << >>)))

-----------------------------------------------------------------------------
(* Extractor and combiner, as grade uses them *)

TextExts == {".txt", ".cpp", ".java", ".py", ".md", ".xml", ".html", ".json", ".csv"}
ParsedExts == {".docx", ".pdf", ".xlsx"}

\* An upload: ext is the lower-cased extension of its filename, content the text
\* a well-formed file of that format holds
NoFile == [filename |-> "", ext |-> "", content |-> << >>, wellformed |-> TRUE]

\* extract_text_from_file: never raises; a placeholder text on failure
ExtractTextFromFile(f) ==
    IF f.ext \in TextExts THEN f.content
    ELSE IF f.ext \in ParsedExts
         THEN (IF f.wellformed THEN f.content ELSE <<"[Error reading file.]">>)
         ELSE <<"[Unsupported or unknown file type]">>

\* The text of one upload slot of grade
FileText(f) ==
    IF f # NoFile /\ f.filename # "" THEN Strip(ExtractTextFromFile(f)) ELSE << >>

\* "\n\n".join(part for part in [text, file_text] if part).strip()
Combine(text, file_text) ==
    Strip(Join(SelectSeq(<<text, file_text>>, LAMBDA part : part # << >>)))

-----------------------------------------------------------------------------
(* Quota gate: the decisions of update_user_usage *)

NULL == << >>
\* date.isoformat(): a day as the text stored in last_use_date
DateStr(d) == <<d>>

\* The gate without the lazy daily reset
EffectiveUsesNoReset(row, today_str) == row.uses_today

EffectiveUses(row, today_str) ==
    IF row.last_use_date # today_str THEN 0 ELSE row.uses_today

\* The check with > for >=
UsageDeniedOffByOne(plan, uses_today) == plan = "free" /\ uses_today > FREE_DAILY_LIMIT

\* The check applied to every plan
UsageDeniedAnyPlan(plan, uses_today) == uses_today >= FREE_DAILY_LIMIT

UsageDenied(plan, uses_today) == plan = "free" /\ uses_today >= FREE_DAILY_LIMIT

\* The row UPDATE users SET uses_today = ?, last_use_date = ? leaves behind
UsageWritten(stored, uses_today, today_str) ==
    [stored EXCEPT !.uses_today = uses_today, !.last_use_date = today_str]

-----------------------------------------------------------------------------
(* Model invoker: call_model *)

\* if not model_name: continue
Configured(model_name) == model_name # ""

CallStart == [idx |-> 1, attempts |-> << >>, last_error |-> "", status |-> "running",
              text |-> << >>]

\* The loop round without the return on success
CallModelStepNoReturn(ms, st, ok, raw) ==
    IF st.idx > Len(ms) THEN [st EXCEPT !.status = IF st.text = << >> THEN "raised" ELSE "returned"]
    ELSE IF ~Configured(ms[st.idx]) THEN [st EXCEPT !.idx = st.idx + 1]
    ELSE [st EXCEPT !.attempts = Append(@, [cand |-> st.idx, ok |-> ok]),
                    !.text = IF ok THEN raw ELSE st.text,
                    !.last_error = IF ok THEN st.last_error ELSE "failed",
                    !.idx = st.idx + 1]

\* One round of the for loop of call_model over the candidates ms, or the raise
\* after it. ok: the request to the candidate returned; raw: the text it returned
CallModelStep(ms, st, ok, raw) ==
    IF st.idx > Len(ms) THEN [st EXCEPT !.status = "raised"]
    ELSE IF ~Configured(ms[st.idx]) THEN [st EXCEPT !.idx = st.idx + 1]
    ELSE IF ok THEN [st EXCEPT !.attempts = Append(@, [cand |-> st.idx, ok |-> TRUE]),
                               !.status = "returned", !.text = raw]
    ELSE [st EXCEPT !.attempts = Append(@, [cand |-> st.idx, ok |-> FALSE]),
                    !.last_error = "failed", !.idx = st.idx + 1]

\* call_model run to its end; oks[i] tells whether candidate i answers
RECURSIVE CallModelRun(_, _, _, _)
CallModelRun(ms, st, oks, raw) ==
    IF st.status # "running" THEN st
    ELSE CallModelRun(ms, CallModelStep(ms, st, st.idx <= Len(ms) /\ oks[st.idx], raw),
                      oks, raw)

\* The defaults of PRIMARY_MODEL and FALLBACK_MODEL
DefaultModels == <<"gpt-4o", "gpt-4o-mini">>

-----------------------------------------------------------------------------
(* The state machine *)

Workers == {"w1", "w2"}
UserIds == {1, 2}
NoUser == 0
Codes == {"PRO1"}
CodeInputs == {"", "PRO1", "NOPE"}
Days == 1..MaxDay

FreshRow == [plan |-> "free", uses_today |-> 0, last_use_date |-> NULL]
NoRow == [plan |-> "", uses_today |-> 0, last_use_date |-> NULL]
NoCodeRow == [plan |-> "", redeemed_by |-> NoUser]

IdleReq ==
    [pc |-> "idle", kind |-> "", user |-> NoUser, today_str |-> NULL, row |-> NoRow,
     uses_today |-> 0, consumed |-> FALSE, code |-> "", code_row |-> NoCodeRow]

NoResp ==
    [kind |-> "", outcome |-> "", consumed |-> FALSE,
     combined_rubric |-> << >>, combined_student |-> << >>,
     attempts |-> << >>, result |-> << >>, plan |-> "", uses_today |-> 0]

\* Values a request can carry
PastedTexts == {<< >>, <<"a">>}
TemplateInputs == {<< >>, <<"{">>}
Files == {NoFile,
          [filename |-> "w.txt", ext |-> ".txt", content |-> <<" ">>, wellformed |-> TRUE]}
ModelTexts == {<<"*", "*", "a">>}

\* Rows user 1 can have reached before the behaviour starts (today is day 1)
InitRows ==
    {FreshRow,
     [plan |-> "free", uses_today |-> FREE_DAILY_LIMIT - 1, last_use_date |-> DateStr(1)]}

PromptIdle ==
    /\ p_in = [template |-> << >>, rubric |-> << >>, student |-> << >>]
    /\ p_out = [done |-> FALSE, err |-> "", text |-> << >>]

SanitizeIdle ==
    /\ s_raw = << >>
    /\ s_out = [done |-> FALSE, text |-> << >>]

CallIdle ==
    /\ c_models = DefaultModels
    /\ c_call = CallStart

Init ==
    /\ users \in {[u \in UserIds |-> IF u = 1 THEN r ELSE FreshRow] : r \in InitRows}
    /\ codes = [c \in Codes |-> [plan |-> "pro", redeemed_by |-> NoUser]]
    /\ today = 1
    /\ req = [w \in Workers |-> IdleReq]
    /\ nreq = 0
    /\ resp = NoResp
    /\ freeAuth = [u \in UserIds |-> [d \in Days |->
                      IF users[u].last_use_date = DateStr(d) THEN users[u].uses_today ELSE 0]]
    /\ redeemOk = [c \in Codes |-> {}]
    /\ PromptIdle
    /\ SanitizeIdle
    /\ CallIdle

PureVars == <<p_in, p_out, s_raw, s_out, c_models, c_call>>
MainVars == <<users, codes, today, req, nreq, resp, freeAuth, redeemOk>>
Accept(w) == req[w].pc = "idle" /\ nreq < MaxRequests /\ nreq' = nreq + 1
Error(kind, outcome) == [NoResp EXCEPT !.kind = kind, !.outcome = outcome]

\* get_current_user finds no user_id in the session: grade answers 401
GradeLoginRequired(w) ==
    /\ Accept(w)
    /\ resp' = Error("grade", "login_required")
    /\ UNCHANGED <<users, codes, today, req, freeAuth, redeemOk, PureVars>>

\* grade up to the SELECT of update_user_usage and the check on what it read;
\* 403 when the check denies
GradeSelectUsage(w, u) ==
    /\ Accept(w)
    /\ LET today_str == DateStr(today)
           row == users[u]
           uses_today == EffectiveUses(row, today_str)
       IN  IF UsageDenied(row.plan, uses_today)
           THEN /\ resp' = Error("grade", "quota_exceeded")
                /\ req' = req
           ELSE /\ resp' = resp
                /\ req' = [req EXCEPT ![w] =
                              [IdleReq EXCEPT !.pc = "update_usage", !.kind = "grade",
                                              !.user = u, !.today_str = today_str,
                                              !.row = row, !.uses_today = uses_today]]
    /\ UNCHANGED <<users, codes, today, freeAuth, redeemOk, PureVars>>

\* uses_today += 1; UPDATE users ...; commit; update_user_usage returns usage_info
GradeUpdateUsage(w) ==
    LET r == req[w]
        day == r.today_str[1]
    IN  /\ r.pc = "update_usage"
        /\ users' = [users EXCEPT ![r.user] = UsageWritten(@, r.uses_today + 1, r.today_str)]
        /\ req' = [req EXCEPT ![w] = [r EXCEPT !.pc = "prepare", !.consumed = TRUE,
                                               !.uses_today = r.uses_today + 1]]
        /\ freeAuth' = IF r.row.plan = "free"
                       THEN [freeAuth EXCEPT ![r.user][day] = @ + 1]
                       ELSE freeAuth
        /\ UNCHANGED <<codes, today, nreq, resp, redeemOk, PureVars>>

\* The validation without the check of the submission slot
ValidateRubricOnly(combined_rubric, combined_student, prompt) ==
    IF combined_rubric = << >> THEN "rubric_required"
    ELSE IF prompt.err # "" THEN "format_exception"
    ELSE "call_model"

\* What grade does between the quota gate and the model call: "call_model", or
\* the response it ends with (400 on an empty slot, an uncaught exception when
\* str.format rejects the template)
Validate(combined_rubric, combined_student, prompt) ==
    IF combined_rubric = << >> THEN "rubric_required"
    ELSE IF combined_student = << >> THEN "student_required"
    ELSE IF prompt.err # "" THEN "format_exception"
    ELSE "call_model"

\* One run of grade after the quota gate, from the request's fields, whether
\* candidate i answers (oks[i]) and the text a candidate returns
GradeRun(rubricText, studentText, promptTemplate, rubricFile, studentFile, oks, raw_result) ==
    LET prompt_template == IF Strip(promptTemplate) = << >>
                           THEN DEFAULT_PROMPT_TEMPLATE ELSE Strip(promptTemplate)
        combined_rubric == Combine(Strip(rubricText), FileText(rubricFile))
        combined_student == Combine(Strip(studentText), FileText(studentFile))
        prompt == BuildFullPrompt(prompt_template, combined_rubric, combined_student)
        next == Validate(combined_rubric, combined_student, prompt)
        call == CallModelRun(DefaultModels, CallStart, oks, raw_result)
        base == [outcome |-> next, combined_rubric |-> combined_rubric,
                 combined_student |-> combined_student,
                 attempts |-> << >>, result |-> << >>]
    IN  IF next # "call_model" THEN base
        ELSE IF call.status = "raised"
             THEN [base EXCEPT !.outcome = "model_error", !.attempts = call.attempts]
             ELSE [base EXCEPT !.outcome = "ok", !.attempts = call.attempts,
                               !.result = CleanResult(call.text)]

\* Every run the request values allow
GradeRuns ==
    {GradeRun(rubricText, studentText, promptTemplate, rubricFile, studentFile,
              oks, raw_result) :
        rubricText \in PastedTexts, studentText \in PastedTexts,
        promptTemplate \in TemplateInputs, rubricFile \in Files, studentFile \in Files,
        oks \in [1..Len(DefaultModels) -> BOOLEAN], raw_result \in ModelTexts}

\* The response of request r for a run: plan and uses_today only with a result
GradeResponse(r, run) ==
    [kind |-> "grade", outcome |-> run.outcome, consumed |-> r.consumed,
     combined_rubric |-> run.combined_rubric, combined_student |-> run.combined_student,
     attempts |-> run.attempts, result |-> run.result,
     plan |-> IF run.outcome = "ok" THEN r.row.plan ELSE "",
     uses_today |-> IF run.outcome = "ok" THEN r.uses_today ELSE 0]

\* The rest of grade with the usage unit given back when every candidate failed
GradePipelineRefund(w) ==
    /\ req[w].pc = "prepare"
    /\ \E run \in GradeRuns :
          /\ resp' = GradeResponse(req[w], run)
          /\ users' = IF run.outcome = "model_error"
                      THEN [users EXCEPT ![req[w].user].uses_today = req[w].uses_today - 1]
                      ELSE users
    /\ req' = [req EXCEPT ![w] = IdleReq]
    /\ UNCHANGED <<codes, today, nreq, freeAuth, redeemOk, PureVars>>

\* The rest of grade: form fields, extraction, combination, validation, prompt,
\* model call, cleaning, response. It touches no table.
GradePipeline(w) ==
    /\ req[w].pc = "prepare"
    /\ \E run \in GradeRuns : resp' = GradeResponse(req[w], run)
    /\ req' = [req EXCEPT ![w] = IdleReq]
    /\ UNCHANGED <<users, codes, today, nreq, freeAuth, redeemOk, PureVars>>

\* redeem without a session user: 401
RedeemLoginRequired(w) ==
    /\ Accept(w)
    /\ resp' = Error("redeem", "login_required")
    /\ UNCHANGED <<users, codes, today, req, freeAuth, redeemOk, PureVars>>

\* What redeem answers after its SELECT of the code, "" when it goes on to update
RedeemCheck(code) ==
    IF code = "" THEN "code_required"
    ELSE IF code \notin DOMAIN codes THEN "invalid_code"
    ELSE IF codes[code].redeemed_by # NoUser THEN "already_redeemed"
    ELSE ""

\* redeem up to the SELECT of the code and the checks on what it read
RedeemSelect(w, u, code) ==
    /\ Accept(w)
    /\ IF RedeemCheck(code) # ""
       THEN /\ resp' = Error("redeem", RedeemCheck(code))
            /\ req' = req
       ELSE /\ resp' = resp
            /\ req' = [req EXCEPT ![w] =
                          [IdleReq EXCEPT !.pc = "redeem_update", !.kind = "redeem",
                                          !.user = u, !.code = code,
                                          !.code_row = codes[code]]]
    /\ UNCHANGED <<users, codes, today, freeAuth, redeemOk, PureVars>>

\* The two UPDATEs of redeem and their commit (one transaction), then 200
RedeemUpdate(w) ==
    LET r == req[w]
    IN  /\ r.pc = "redeem_update"
        /\ users' = [users EXCEPT ![r.user].plan = r.code_row.plan]
        /\ codes' = [codes EXCEPT ![r.code].redeemed_by = r.user]
        /\ redeemOk' = [redeemOk EXCEPT ![r.code] = @ \cup {r.user}]
        /\ resp' = [NoResp EXCEPT !.kind = "redeem", !.outcome = "redeemed",
                                  !.plan = r.code_row.plan]
        /\ req' = [req EXCEPT ![w] = IdleReq]
        /\ UNCHANGED <<today, nreq, freeAuth, PureVars>>

\* Midnight passes
DayRollover ==
    /\ today < MaxDay
    /\ today' = today + 1
    /\ UNCHANGED <<users, codes, req, nreq, resp, freeAuth, redeemOk, PureVars>>

Next ==
    \/ \E w \in Workers : GradeLoginRequired(w)
    \/ \E w \in Workers, u \in UserIds : GradeSelectUsage(w, u)
    \/ \E w \in Workers : GradeUpdateUsage(w)
    \/ \E w \in Workers : GradePipeline(w)
    \/ \E w \in Workers : RedeemLoginRequired(w)
    \/ \E w \in Workers, u \in UserIds, code \in CodeInputs : RedeemSelect(w, u, code)
    \/ \E w \in Workers : RedeemUpdate(w)
    \/ DayRollover

Spec == Init /\ [][Next]_vars

-----------------------------------------------------------------------------
(* build_full_prompt on its own: every template, rubric and submission of the
   bounded sets *)

BraceTexts == SeqsUpTo({"{", "}", "a"}, MaxTextLen)

\* Templates made of text and the two placeholders only
PlainTemplates ==
    {DEFAULT_PROMPT_TEMPLATE,
     Placeholder(RUBRIC_FIELD) \o Placeholder(STUDENT_FIELD),
     Placeholder(STUDENT_FIELD) \o <<"a">> \o Placeholder(RUBRIC_FIELD)}

\* Caller-supplied templates with braces of their own
OtherTemplates ==
    {<<"{", "{">> \o Placeholder(RUBRIC_FIELD) \o <<"}", "}">> \o Placeholder(STUDENT_FIELD),
     <<"{">>, <<"a", "}">>, <<"{", "}">>, Placeholder(<<"x">>)}

MainIdle ==
    /\ users = [u \in UserIds |-> FreshRow]
    /\ codes = [c \in Codes |-> [plan |-> "pro", redeemed_by |-> NoUser]]
    /\ today = 1
    /\ req = [w \in Workers |-> IdleReq]
    /\ nreq = 0
    /\ resp = NoResp
    /\ freeAuth = [u \in UserIds |-> [d \in Days |-> 0]]
    /\ redeemOk = [c \in Codes |-> {}]

InitPrompt ==
    /\ MainIdle /\ SanitizeIdle /\ CallIdle
    /\ p_in \in [template : PlainTemplates \cup OtherTemplates,
                 rubric : BraceTexts, student : BraceTexts]
    /\ p_out = [done |-> FALSE, err |-> "", text |-> << >>]

BuildPrompt ==
    /\ ~p_out.done
    /\ p_out' = [done |-> TRUE,
                 err |-> BuildFullPrompt(p_in.template, p_in.rubric, p_in.student).err,
                 text |-> BuildFullPrompt(p_in.template, p_in.rubric, p_in.student).text]
    /\ UNCHANGED <<MainVars, p_in, s_raw, s_out, c_models, c_call>>

SpecPrompt == InitPrompt /\ [][BuildPrompt]_vars

-----------------------------------------------------------------------------
(* The cleaning step on its own: every raw text of the bounded set *)

SanChars == {"*", "-", "+", " ", NL, "a"}

InitSanitize ==
    /\ MainIdle /\ PromptIdle /\ CallIdle
    /\ s_raw \in SeqsUpTo(SanChars, MaxLen)
    /\ s_out = [done |-> FALSE, text |-> << >>]

Sanitize ==
    /\ ~s_out.done
    /\ s_out' = [done |-> TRUE, text |-> CleanResult(s_raw)]
    /\ UNCHANGED <<MainVars, p_in, p_out, s_raw, c_models, c_call>>

SpecSanitize == InitSanitize /\ [][Sanitize]_vars

-----------------------------------------------------------------------------
(* call_model on its own, one loop round per step, under every configuration
   of the two model names *)

ModelNames == {"", "gpt-4o", "gpt-4o-mini"}
CallTexts == SeqsUpTo({"a", "*"}, MaxTextLen)

InitCall ==
    /\ MainIdle /\ PromptIdle /\ SanitizeIdle
    /\ c_models \in ModelNames \X ModelNames
    /\ c_call = CallStart

CallRunning == c_call.status = "running"

CallModelSkip ==
    /\ CallRunning
    /\ c_call.idx <= Len(c_models)
    /\ ~Configured(c_models[c_call.idx])
    /\ c_call' = CallModelStep(c_models, c_call, FALSE, << >>)
    /\ UNCHANGED <<MainVars, p_in, p_out, s_raw, s_out, c_models>>

CallModelAttempt ==
    /\ CallRunning
    /\ c_call.idx <= Len(c_models)
    /\ Configured(c_models[c_call.idx])
    /\ \E ok \in BOOLEAN, raw \in CallTexts :
          c_call' = CallModelStep(c_models, c_call, ok, IF ok THEN raw ELSE << >>)
    /\ UNCHANGED <<MainVars, p_in, p_out, s_raw, s_out, c_models>>

CallModelRaise ==
    /\ CallRunning
    /\ c_call.idx > Len(c_models)
    /\ c_call' = CallModelStep(c_models, c_call, FALSE, << >>)
    /\ UNCHANGED <<MainVars, p_in, p_out, s_raw, s_out, c_models>>

NextCall == CallModelSkip \/ CallModelAttempt \/ CallModelRaise

SpecCall == InitCall /\ [][NextCall]_vars

-----------------------------------------------------------------------------
(* Properties *)

Authorized(w) == req'[w].pc = "update_usage" /\ resp' = resp
StoredToday(row, day) == row.last_use_date = DateStr(day)

\* C1: under any interleaving of concurrent update_user_usage calls for one free
\* user on one day the check and the increment act as one unit: no more than
\* FREE_DAILY_LIMIT calls are authorized for that user on that day, and the
\* stored uses_today of a free user never exceeds FREE_DAILY_LIMIT.
C1_AtomicQuota ==
    \A u \in UserIds :
        /\ \A d \in Days : freeAuth[u][d] <= FREE_DAILY_LIMIT
        /\ users[u].plan = "free" => users[u].uses_today <= FREE_DAILY_LIMIT

\* C2: a free user stored at FREE_DAILY_LIMIT - 1 for today: the call that read
\* this row stores uses_today = FREE_DAILY_LIMIT (date today, plan untouched); a
\* call that finds the row at FREE_DAILY_LIMIT for today is answered with the
\* limit error and changes nothing in the tables.
C2_LimitBoundary ==
    [][\A w \in Workers, u \in UserIds :
        /\ (/\ GradeUpdateUsage(w)
            /\ req[w].user = u
            /\ req[w].row.plan = "free"
            /\ req[w].row.last_use_date = req[w].today_str
            /\ req[w].row.uses_today = FREE_DAILY_LIMIT - 1)
           => /\ users'[u].uses_today = FREE_DAILY_LIMIT
              /\ users'[u].last_use_date = req[w].today_str
              /\ users'[u].plan = users[u].plan
              /\ req'[w].consumed
        /\ (/\ GradeSelectUsage(w, u)
            /\ users[u].plan = "free"
            /\ StoredToday(users[u], today)
            /\ users[u].uses_today = FREE_DAILY_LIMIT)
           => /\ resp'.outcome = "quota_exceeded"
              /\ req'[w].pc = "idle"
              /\ users' = users /\ codes' = codes
      ]_vars

\* C2 witness: one call took the row from FREE_DAILY_LIMIT - 1 to
\* FREE_DAILY_LIMIT and a later call of another worker was denied
C2_Witness ==
    \E w \in Workers :
        /\ req[w].pc = "prepare"
        /\ req[w].row.plan = "free"
        /\ req[w].row.last_use_date = req[w].today_str
        /\ req[w].row.uses_today = FREE_DAILY_LIMIT - 1
        /\ users[req[w].user].uses_today = FREE_DAILY_LIMIT
        /\ \A v \in Workers \ {w} : req[v].pc = "idle"
        /\ resp.kind = "grade" /\ resp.outcome = "quota_exceeded"

\* C3: a free user whose stored last_use_date is not the current date (never
\* set included): the call is authorized whatever the stored uses_today is, and
\* it stores uses_today = 1 and last_use_date = today.
C3_LazyReset ==
    [][\A w \in Workers, u \in UserIds :
        /\ (/\ GradeSelectUsage(w, u)
            /\ users[u].plan = "free"
            /\ ~StoredToday(users[u], today))
           => Authorized(w)
        /\ (/\ GradeUpdateUsage(w)
            /\ req[w].user = u
            /\ req[w].row.plan = "free"
            /\ req[w].row.last_use_date # req[w].today_str)
           => /\ users'[u].uses_today = 1
              /\ users'[u].last_use_date = req[w].today_str
      ]_vars

\* C3 witness: a call that read a stale row at or above the limit has stored 1
C3_Witness ==
    \E w \in Workers :
        /\ req[w].pc = "prepare"
        /\ req[w].row.plan = "free"
        /\ req[w].row.last_use_date # req[w].today_str
        /\ req[w].row.uses_today >= FREE_DAILY_LIMIT
        /\ users[req[w].user].uses_today = 1
        /\ users[req[w].user].last_use_date = req[w].today_str

\* C8: a pro user is authorized on every call, whatever the stored count and
\* date, and the call stores the effective count plus one with today's date.
C8_ProUnlimited ==
    [][\A w \in Workers, u \in UserIds :
        /\ (GradeSelectUsage(w, u) /\ users[u].plan = "pro") => Authorized(w)
        /\ (GradeUpdateUsage(w) /\ req[w].user = u /\ req[w].row.plan = "pro")
           => /\ users'[u].uses_today =
                    (IF req[w].row.last_use_date = req[w].today_str
                     THEN req[w].row.uses_today ELSE 0) + 1
              /\ users'[u].last_use_date = req[w].today_str
      ]_vars

\* C8 witness: a pro user already at the free limit today was authorized again
C8_Witness ==
    \E w \in Workers :
        /\ req[w].pc = "prepare"
        /\ req[w].row.plan = "pro"
        /\ req[w].row.last_use_date = req[w].today_str
        /\ req[w].row.uses_today >= FREE_DAILY_LIMIT
        /\ users[req[w].user].uses_today = req[w].row.uses_today + 1

\* C10: an activation code is write-once: at most one redeem of a code succeeds
\* and at most one user's plan is upgraded by it, under any interleaving.
C10_WriteOnce ==
    /\ \A c \in Codes : Cardinality(redeemOk[c]) <= 1
    /\ Cardinality({u \in UserIds : users[u].plan = "pro"}) <= Cardinality(Codes)

\* The template with each placeholder replaced by the text as it is
RECURSIVE PlainSubstitute(_, _, _)
PlainSubstitute(t, rubric, student) ==
    IF t = << >> THEN << >>
    ELSE IF HasPrefix(t, Placeholder(RUBRIC_FIELD))
         THEN rubric \o PlainSubstitute(SubSeq(t, Len(Placeholder(RUBRIC_FIELD)) + 1, Len(t)),
                                        rubric, student)
    ELSE IF HasPrefix(t, Placeholder(STUDENT_FIELD))
         THEN student \o PlainSubstitute(SubSeq(t, Len(Placeholder(STUDENT_FIELD)) + 1, Len(t)),
                                         rubric, student)
    ELSE <<Head(t)>> \o PlainSubstitute(Tail(t), rubric, student)

\* C4: build_full_prompt never raises because of braces in the rubric or the
\* submission, and with a template of text and the two placeholders its result
\* is the template with each placeholder replaced by the unescaped text.
C4_Verbatim ==
    (p_out.done /\ p_in.template \in PlainTemplates)
        => /\ p_out.err = ""
           /\ p_out.text = PlainSubstitute(p_in.template, p_in.rubric, p_in.student)

AttemptedCands(a) == {a[i].cand : i \in 1..Len(a)}
ConfiguredCands(ms) == {k \in 1..Len(ms) : ms[k] # ""}

\* C5: call_model tries the configured candidates in the order primary, fallback,
\* passing over unconfigured ones, each at most once; the first success ends the
\* call with that candidate's text and no later attempt; the call fails only
\* when every configured candidate has been tried once and has failed.
C5_FallbackOrder ==
    LET a == c_call.attempts
        n == Len(a)
    IN  /\ AttemptedCands(a) \subseteq ConfiguredCands(c_models)
        /\ \A i, j \in 1..n : i < j => a[i].cand < a[j].cand
        /\ \A i \in 1..n : a[i].ok => i = n /\ c_call.status = "returned"
        /\ c_call.status = "returned"
              => /\ n >= 1 /\ a[n].ok
                 /\ AttemptedCands(a) = {k \in ConfiguredCands(c_models) : k <= a[n].cand}
        /\ c_call.status = "raised"
              => /\ AttemptedCands(a) = ConfiguredCands(c_models)
                 /\ \A i \in 1..n : ~a[i].ok
        /\ c_call.status = "running"
              => AttemptedCands(a) = {k \in ConfiguredCands(c_models) : k < c_call.idx}

\* C5 witness: the primary failed and the fallback answered
C5_Witness ==
    /\ c_call.status = "returned"
    /\ c_call.attempts = <<[cand |-> 1, ok |-> FALSE], [cand |-> 2, ok |-> TRUE]>>
    /\ c_call.text # << >>

\* C6: within a grading request the model is called only after the quota gate
\* has authorized the request and only with a non-empty combined rubric and a
\* non-empty combined submission; a request the gate denied, or one with an
\* empty slot, ends without a model call.
C6_ModelCallGuarded ==
    /\ \A w \in Workers : req[w].pc = "prepare" => req[w].consumed
    /\ resp.kind = "grade" =>
          /\ resp.attempts # << >>
                => /\ resp.consumed
                   /\ resp.combined_rubric # << >>
                   /\ resp.combined_student # << >>
          /\ resp.outcome \in {"ok", "model_error"} => resp.attempts # << >>
          /\ resp.outcome \in {"login_required", "quota_exceeded",
                               "rubric_required", "student_required"}
                => resp.attempts = << >>
          /\ resp.outcome \in {"login_required", "quota_exceeded"} => ~resp.consumed

\* C6 witness: a request the gate let through called the model
C6_Witness ==
    /\ resp.kind = "grade" /\ resp.outcome = "ok"
    /\ resp.consumed /\ resp.attempts # << >>
    /\ resp.combined_rubric # << >> /\ resp.combined_student # << >>

\* C7, as the specification states it: the failure of every model candidate is the only error a
\* grading request can end with once the gate has consumed its usage unit.
C7_OnlyModelError ==
    (resp.kind = "grade" /\ resp.consumed /\ resp.outcome # "ok")
        => resp.outcome = "model_error"

PipelineEnds(w) == req[w].pc = "prepare" /\ req'[w].pc = "idle"

\* C7, amended: once the gate has consumed the usage unit a grading request ends
\* with a result or with one of: the missing-rubric or missing-submission
\* error, the uncaught exception of str.format on the template, the failure of
\* every model candidate; the step that ends it leaves the users table as it
\* is, so the increment is kept.
C7_ErrorsAfterGate ==
    [][\A w \in Workers :
          PipelineEnds(w)
             => /\ resp'.kind = "grade" /\ resp'.consumed
                /\ resp'.outcome \in {"ok", "rubric_required", "student_required",
                                      "format_exception", "model_error"}
                /\ users' = users
      ]_vars

\* C7 witness: a request ended with the missing-rubric error after its unit was
\* consumed, and the count it stored is still there
C7_Witness ==
    /\ resp.kind = "grade" /\ resp.consumed /\ resp.outcome = "rubric_required"
    /\ nreq = 1
    /\ \E u \in UserIds :
          /\ users[u].last_use_date = DateStr(today)
          /\ users[u].uses_today = freeAuth[u][today]
          /\ users[u].uses_today >= 1

LineStartsWithMarker(text) ==
    \E i \in 1..Len(text) : (i = 1 \/ text[i - 1] = NL) /\ IsMarker(text[i])
Trimmed(text) == text = << >> \/ (~IsSpace(text[1]) /\ ~IsSpace(text[Len(text)]))
BlankBeforeMarker(text) ==
    \E i \in 2..Len(text) : IsSpace(text[i - 1]) /\ text[i - 1] # NL /\ IsMarker(text[i])

\* C9, as the specification states it: for every raw text the cleaned result holds no "**", no "---",
\* no line beginning with *, - or +, and no leading or trailing whitespace.
C9_FullyClean ==
    s_out.done
        => /\ ~Contains(s_out.text, BOLD)
           /\ ~Contains(s_out.text, RULE)
           /\ ~LineStartsWithMarker(s_out.text)
           /\ Trimmed(s_out.text)

\* C9, amended: for every raw text the cleaned result holds no "---" and no
\* leading or trailing whitespace; it holds no "**" when the raw text has no "*"
\* directly followed by "-"; no line of it begins with *, - or + when the raw
\* text has no blank (whitespace other than a newline) directly before a marker.
C9_BestEffortClean ==
    s_out.done
        => /\ ~Contains(s_out.text, RULE)
           /\ Trimmed(s_out.text)
           /\ ~Contains(s_raw, <<"*", "-">>) => ~Contains(s_out.text, BOLD)
           /\ ~BlankBeforeMarker(s_raw) => ~LineStartsWithMarker(s_out.text)

\* C9 witness: a raw text with bold markup, a rule and a bullet was cleaned to a
\* non-empty text
C9_Witness ==
    /\ s_out.done
    /\ Contains(s_raw, BOLD) /\ Contains(s_raw, RULE) /\ IsMarker(s_raw[1])
    /\ ~Contains(s_raw, <<"*", "-">>) /\ ~BlankBeforeMarker(s_raw)
    /\ s_out.text # << >>

====
